---- MODULE Spec2Model ----
(***************************************************************************)
(* HomeInvestmentCalculator (src/model.py): the cost lists, the mortgage   *)
(* and the sale information held by one calculator object, and the         *)
(* operations add_initial_cost, add_improvement, add_recurring_cost,       *)
(* add_mortgage, import_from_csv and calculate_returns.                    *)
(*                                                                         *)
(* Money is modelled by integers.  The mortgages offered to add_mortgage   *)
(* are those for which the amortization formula is exact in integers (and  *)
(* in IEEE doubles): a monthly rate of 1, 0 or -1 and a principal of 4095. *)
(* The one place where the code raises to a fractional power, the          *)
(* remaining balance at the sale date, is interpolated linearly between    *)
(* whole months (see Pow100).  IRR, the benchmark's future value and the   *)
(* holding period are floating-point results that are left out of Summary. *)
(* df.sort_values is modelled as a stable sort; nothing below reads the    *)
(* order of rows of one date.  The CSV cells the code reads are never      *)
(* blank (pandas reads a blank cell as NaN).                               *)
(***************************************************************************)
EXTENDS Integers, Sequences, FiniteSets, TLC

VARIABLES initial_costs,    \* self.initial_costs
          recurring_costs,  \* self.recurring_costs
          improvements,     \* self.improvements
          mortgage,         \* self.mortgage
          sale_info,        \* self.sale_info (an attribute __init__ does not create)
          result            \* what the last call did: its name, its outcome, its return value

vars == <<initial_costs, recurring_costs, improvements, mortgage, sale_info, result>>

\* Python's None.
None == [none |-> TRUE]

\* The attribute self.sale_info before any assignment to it.
Unset == [unset |-> TRUE]

---------------------------------------------------------------------------
\* Calendar dates (pandas Timestamps at midnight): [year, month, day].

IsLeap(y) == (y % 4 = 0 /\ y % 100 # 0) \/ y % 400 = 0

DaysInMonth(y, m) ==
    IF m = 2 THEN (IF IsLeap(y) THEN 29 ELSE 28)
    ELSE IF m \in {4, 6, 9, 11} THEN 30 ELSE 31

Min(a, b) == IF a <= b THEN a ELSE b

\* pd.to_datetime of an ISO date text, given as <<year, month, day>>.
to_datetime(s) == [year |-> s[1], month |-> s[2], day |-> s[3]]

\* a <= b on Timestamps.
DateLE(a, b) ==
    \/ a.year < b.year
    \/ a.year = b.year /\ a.month < b.month
    \/ a.year = b.year /\ a.month = b.month /\ a.day <= b.day

\* date + pd.DateOffset(months=k): the month moves by k, the day is clamped
\* to the last day of the month reached.
AddMonths(d, k) ==
    LET t == (d.year * 12 + (d.month - 1)) + k
        y == t \div 12
        m == (t % 12) + 1
    IN  [year |-> y, month |-> m, day |-> Min(d.day, DaysInMonth(y, m))]

\* date + pd.DateOffset(years=k).
AddYears(d, k) ==
    [year |-> d.year + k, month |-> d.month,
     day |-> Min(d.day, DaysInMonth(d.year + k, d.month))]

\* Days from 0001-01-01 (the proleptic Gregorian ordinal), so that
\* (a - b).days = Ordinal(a) - Ordinal(b).
RECURSIVE DaysBeforeMonth(_, _)
DaysBeforeMonth(y, m) ==
    IF m = 1 THEN 0 ELSE DaysBeforeMonth(y, m - 1) + DaysInMonth(y, m - 1)

Ordinal(d) ==
    LET y == d.year - 1
    IN  y * 365 + (y \div 4) - (y \div 100) + (y \div 400)
        + DaysBeforeMonth(d.year, d.month) + d.day

DaysBetween(a, b) == Ordinal(a) - Ordinal(b)

---------------------------------------------------------------------------
\* Fixed-rate amortization (add_mortgage, calculate_mortgage_payment_split).

RECURSIVE PowInt(_, _)
\* b ** n for a whole n >= 0 (Python: 0.0 ** 0 = 1.0).
PowInt(b, n) == IF n = 0 THEN 1 ELSE b * PowInt(b, n - 1)

\* The record add_mortgage stores first (lines 23-30); it has no
\* monthly_payment yet.
MortgageRecord(principal, annual_rate, term_years, start_date) ==
    [principal      |-> principal,
     annual_rate    |-> annual_rate,
     term_years     |-> term_years,
     start_date     |-> to_datetime(start_date),
     monthly_rate   |-> (annual_rate \div 12) \div 100,
     total_payments |-> term_years * 12]

\* p * (r * (1 + r)**n) / ((1 + r)**n - 1), line 36.  (1 + r)**n is the
\* fraction num/den; a zero base to a negative power and a zero divisor
\* raise ZeroDivisionError.
MonthlyPayment(p, r, n) ==
    IF 1 + r = 0 /\ n < 0 THEN [kind |-> "ZeroDivisionError"]
    ELSE LET num == IF n >= 0 THEN PowInt(1 + r, n) ELSE 1
             den == IF n >= 0 THEN 1 ELSE PowInt(1 + r, 0 - n)
         IN  IF num - den = 0 THEN [kind |-> "ZeroDivisionError"]
             ELSE [kind |-> "ok", value |-> (p * r * num) \div (num - den)]

\* add_mortgage as a function of the calculator: the new self.mortgage and
\* the outcome.  The record is assigned before the payment is computed, so
\* an error leaves the record without monthly_payment in place.
add_mortgage_op(principal, annual_rate, term_years, start_date) ==
    LET rec == MortgageRecord(principal, annual_rate, term_years, start_date)
        pay == MonthlyPayment(principal, rec.monthly_rate, rec.total_payments)
    IN  IF pay.kind = "ok"
        THEN [kind |-> "ok",
              mortgage |-> [f \in DOMAIN rec \cup {"monthly_payment"} |->
                              IF f = "monthly_payment" THEN pay.value ELSE rec[f]]]
        ELSE [kind |-> pay.kind, mortgage |-> rec]

\* calculate_mortgage_payment_split for a mortgage that is set (the caller
\* tests self.mortgage): <<principal_payment, interest_payment>>.
calculate_mortgage_payment_split(m, payment_number) ==
    IF "monthly_payment" \notin DOMAIN m THEN [kind |-> "KeyError"]
    ELSE IF m.monthly_rate = 0 THEN [kind |-> "ZeroDivisionError"]
    ELSE LET r   == m.monthly_rate
             x   == PowInt(1 + r, payment_number)
             remaining_principal == m.principal * x - (m.monthly_payment * (x - 1)) \div r
             interest_payment    == remaining_principal * r
         IN  [kind |-> "ok",
              principal_payment |-> m.monthly_payment - interest_payment,
              interest_payment  |-> interest_payment]

\* 30.44 days to the month (line 264), times 100.
MonthDays100 == 3044

\* 100 * b ** (num / 3044), the power of line 270 at a fractional number of
\* months, kept to two decimals: exact at whole months, linear between two
\* whole months.
Pow100(b, num) ==
    LET f   == num \div MonthDays100
        rem == num % MonthDays100
    IN  IF b = 0 THEN (IF num = 0 THEN 100 ELSE 0)
        ELSE IF f >= 0
        THEN (PowInt(b, f) * (MonthDays100 + rem * (b - 1)) * 100) \div MonthDays100
        ELSE ((MonthDays100 + rem * (b - 1)) * 100) \div (MonthDays100 * PowInt(b, 0 - f))

\* Lines 261-270: the balance left at the sale date.
RemainingMortgage(m, sale_date) ==
    IF m = None THEN [kind |-> "ok", value |-> 0]
    ELSE LET days100 == DaysBetween(sale_date, m.start_date) * 100
         IN  IF ~(days100 < m.total_payments * MonthDays100)
             THEN [kind |-> "ok", value |-> 0]
             ELSE IF "monthly_payment" \notin DOMAIN m THEN [kind |-> "KeyError"]
             ELSE IF 1 + m.monthly_rate = 0 /\ days100 < 0
                  THEN [kind |-> "ZeroDivisionError"]
             ELSE IF m.monthly_rate = 0 THEN [kind |-> "ZeroDivisionError"]
             ELSE LET x == Pow100(1 + m.monthly_rate, days100)
                  IN  [kind |-> "ok",
                       value |-> (m.principal * x
                                  - (m.monthly_payment * (x - 100)) \div m.monthly_rate)
                                 \div 100]

---------------------------------------------------------------------------
\* Text operations, over the texts the model offers.

\* str.lower().strip()
LowerStrip(s) ==
    CASE s = " Sale "        -> "sale"
      [] s = "Initial"       -> "initial"
      [] s = "Monthly"       -> "monthly"
      [] s = "Down Payment"  -> "down payment"
      [] s = "DOWN PAYMENT (wire)" -> "down payment (wire)"
      [] s = "Closing costs" -> "closing costs"
      [] s = "Property tax"  -> "property tax"
      [] s = "Roof"          -> "roof"
      [] OTHER               -> s

\* Series.str.contains('down payment', case=False) on one description.
ContainsDownPayment(description) ==
    LowerStrip(description) \in {"down payment", "down payment (wire)"}

---------------------------------------------------------------------------
\* _calculate_returns: the expansion of the cost set into dated events.

Event(date, amount, description, type) ==
    [date |-> date, amount |-> amount, description |-> description, type |-> type]

\* Lines 196-211: one negated event per initial cost and per improvement.
OneTimeEvents(costs, type) ==
    [i \in 1..Len(costs) |->
        Event(costs[i].date, 0 - costs[i].amount, costs[i].description, type)]

RECURSIVE MortgageLoop(_, _, _, _, _, _)
\* MortgageLoop with the loop test payment_number <= total_payments.
MortgageLoopOneMore(m, sale_date, current_date, payment_number, events, accumulated_equity) ==
    IF ~(DateLE(current_date, sale_date) /\ payment_number <= m.total_payments)
    THEN [kind |-> "ok", events |-> events, accumulated_equity |-> accumulated_equity]
    ELSE LET split == calculate_mortgage_payment_split(m, payment_number)
         IN  IF split.kind # "ok" THEN [kind |-> split.kind]
             ELSE MortgageLoop(m, sale_date, AddMonths(current_date, 1), payment_number + 1,
                               events \o <<Event(current_date, 0 - split.principal_payment,
                                                 "Mortgage Principal", "Equity Building"),
                                           Event(current_date, 0 - split.interest_payment,
                                                 "Mortgage Interest", "Interest Cost")>>,
                               accumulated_equity + split.principal_payment)

\* Lines 218-239: the while loop, from (current_date, payment_number) with the
\* events emitted and the equity accumulated so far.
MortgageLoop(m, sale_date, current_date, payment_number, events, accumulated_equity) ==
    IF ~(DateLE(current_date, sale_date) /\ payment_number < m.total_payments)
    THEN [kind |-> "ok", events |-> events, accumulated_equity |-> accumulated_equity]
    ELSE LET split == calculate_mortgage_payment_split(m, payment_number)
         IN  IF split.kind # "ok" THEN [kind |-> split.kind]
             ELSE MortgageLoop(m, sale_date, AddMonths(current_date, 1), payment_number + 1,
                               events \o <<Event(current_date, 0 - split.principal_payment,
                                                 "Mortgage Principal", "Equity Building"),
                                           Event(current_date, 0 - split.interest_payment,
                                                 "Mortgage Interest", "Interest Cost")>>,
                               accumulated_equity + split.principal_payment)

\* Lines 214-239.
MortgageEvents(m, sale_date) ==
    IF m = None
    THEN [kind |-> "ok", events |-> <<>>, accumulated_equity |-> 0]
    ELSE MortgageLoop(m, sale_date, m.start_date, 0, <<>>, 0)

\* Lines 251-254: the date after one pass of the loop body; a frequency that
\* is neither 'monthly' nor 'annual' leaves it where it is.
NextRecurringDate(cost, current_date) ==
    IF cost.frequency = "monthly" THEN AddMonths(current_date, 1)
    ELSE IF cost.frequency = "annual" THEN AddYears(current_date, 1)
    ELSE current_date

RECURSIVE RecurringLoop(_, _, _, _)
\* Lines 244-254 for one cost.  A pass that leaves current_date unchanged
\* while current_date <= sale_date repeats for ever, appending one event
\* each time: the call does not return.
RecurringLoop(cost, sale_date, current_date, events) ==
    IF ~DateLE(current_date, sale_date) THEN [kind |-> "ok", events |-> events]
    ELSE IF NextRecurringDate(cost, current_date) = current_date
         THEN [kind |-> "diverges"]
    ELSE RecurringLoop(cost, sale_date, NextRecurringDate(cost, current_date),
                       Append(events, Event(current_date, 0 - cost.amount,
                                            cost.description, "Recurring Cost")))

RECURSIVE RecurringEvents(_, _, _)
\* Lines 242-254: the costs from index i on, in list order.
RecurringEvents(costs, sale_date, i) ==
    IF i > Len(costs) THEN [kind |-> "ok", events |-> <<>>]
    ELSE LET one == RecurringLoop(costs[i], sale_date, costs[i].start_date, <<>>)
         IN  IF one.kind # "ok" THEN one
             ELSE LET rest == RecurringEvents(costs, sale_date, i + 1)
                  IN  IF rest.kind # "ok" THEN rest
                      ELSE [kind |-> "ok", events |-> one.events \o rest.events]

RECURSIVE InsertByDate(_, _)
\* row put after the last row of the sorted rows whose date is <= its own.
InsertByDate(rows, row) ==
    IF rows = <<>> \/ DateLE(rows[Len(rows)].date, row.date)
    THEN Append(rows, row)
    ELSE Append(InsertByDate(SubSeq(rows, 1, Len(rows) - 1), row), rows[Len(rows)])

RECURSIVE sort_values(_)
\* df.sort_values('date'), line 259: ascending by date, rows of one date kept
\* in their order.
sort_values(rows) ==
    IF rows = <<>> THEN <<>>
    ELSE InsertByDate(sort_values(SubSeq(rows, 1, Len(rows) - 1)), rows[Len(rows)])

RECURSIVE Sum(_)
\* Series.sum() of a column of amounts.
Sum(amounts) ==
    IF amounts = <<>> THEN 0
    ELSE amounts[Len(amounts)] + Sum(SubSeq(amounts, 1, Len(amounts) - 1))

\* df['amount'] as a column.
Amounts(rows) == [i \in 1..Len(rows) |-> rows[i].amount]

RECURSIVE cumsum(_, _, _)
\* df['cumulative_investment'] = df['amount'].cumsum(), line 287.
cumsum(rows, i, running) ==
    IF i > Len(rows) THEN <<>>
    ELSE <<[date |-> rows[i].date, amount |-> rows[i].amount,
            description |-> rows[i].description, type |-> rows[i].type,
            cumulative_investment |-> running + rows[i].amount]>>
         \o cumsum(rows, i + 1, running + rows[i].amount)


---------------------------------------------------------------------------
\* Summary and the calls that produce it.

\* calculate_market_comparison, lines 166-167 and 173-174 (the compounded
\* benchmark value is a floating-point figure and is left out).
calculate_market_comparison(df) ==
    [total_invested  |-> 0 - Sum(Amounts(SelectSeq(df, LAMBDA row : row.amount < 0))),
     total_withdrawn |-> Sum(Amounts(SelectSeq(df, LAMBDA row : row.amount > 0)))]

\* Lines 312-322: <<down_payment, purchase_price, purchase_date>>.
PurchaseInformation(df, m) ==
    LET initial == SelectSeq(df, LAMBDA row : row.type = "Initial Cost")
        matches == SelectSeq(initial, LAMBDA row : ContainsDownPayment(row.description))
        down_payment == IF matches # <<>> THEN 0 - matches[1].amount ELSE 0
    IN  IF initial = <<>>
        THEN [down_payment |-> 0, purchase_price |-> 0, purchase_date |-> None]
        ELSE [down_payment   |-> down_payment,
              purchase_price |-> down_payment + (IF m # None THEN m.principal ELSE 0),
              purchase_date  |-> initial[1].date]

\* Lines 256-349, once the events are there: the sort, the Sale row, the
\* running sum and the Summary.
LedgerAndSummary(self, all_costs, accumulated_equity, remaining_mortgage, estimated_sale_price, sale_date, closing_costs_percent) ==
    LET sorted == sort_values(all_costs)
        closing_costs == (estimated_sale_price * closing_costs_percent) \div 100
        net_sale_proceeds == estimated_sale_price - closing_costs - remaining_mortgage
        sale_row == Event(sale_date, net_sale_proceeds,
                          "Sale Proceeds (After Mortgage Payoff)", "Sale")
        df == cumsum(Append(sorted, sale_row), 1, 0)
        market == calculate_market_comparison(df)
        purchase == PurchaseInformation(df, self.mortgage)
    IN  [kind |-> "ok",
         ledger |-> df,
         summary |->
            ("Total Initial Investment" :>
                 0 - Sum(Amounts(SelectSeq(df, LAMBDA row :
                                   row.type \in {"Initial Cost", "Improvement"})))) @@
            ("Total Cash Outflow" :>
                 0 - Sum(Amounts(SelectSeq(df, LAMBDA row : row.amount < 0)))) @@
            ("Accumulated Equity" :> accumulated_equity) @@
            ("Remaining Mortgage" :> remaining_mortgage) @@
            ("Sale Proceeds" :> net_sale_proceeds) @@
            ("Net Profit" :> Sum(Amounts(df))) @@
            ("Purchase Price" :> purchase.purchase_price) @@
            ("Down Payment" :> purchase.down_payment) @@
            ("Purchase Date" :> purchase.purchase_date) @@
            ("Sale Price" :> estimated_sale_price) @@
            ("Sale Date" :> sale_date) @@
            ("Total Invested" :> market.total_invested) @@
            ("Total Withdrawn" :> market.total_withdrawn)]

\* _calculate_returns that steps the mortgage's own start_date instead of a
\* copy of it: the calculator is left with start_date one month later.
_calculate_returns_in_place(self, estimated_sale_price, sale_date, closing_costs_percent) ==
    LET mort == MortgageEvents(self.mortgage, sale_date)
    IN  [self |-> IF self.mortgage # None /\ mort.kind = "ok" /\ mort.events # <<>>
                  THEN [self EXCEPT !.mortgage.start_date = AddMonths(@, 1)]
                  ELSE self,
         out  |-> [kind |-> mort.kind]]

\* _calculate_returns, lines 189-349: the calculator after the call and what
\* the call returns or raises.
_calculate_returns(self, estimated_sale_price, sale_date, closing_costs_percent) ==
    LET mort == MortgageEvents(self.mortgage, sale_date)
        rec  == RecurringEvents(self.recurring_costs, sale_date, 1)
        rem  == RemainingMortgage(self.mortgage, sale_date)
    IN  [self |-> self,
         out  |-> IF mort.kind # "ok" THEN [kind |-> mort.kind]
                  ELSE IF rec.kind # "ok" THEN [kind |-> rec.kind]
                  ELSE IF rem.kind # "ok" THEN [kind |-> rem.kind]
                  ELSE LedgerAndSummary(self,
                           OneTimeEvents(self.initial_costs, "Initial Cost")
                             \o OneTimeEvents(self.improvements, "Improvement")
                             \o mort.events \o rec.events,
                           mort.accumulated_equity, rem.value,
                           estimated_sale_price, sale_date, closing_costs_percent)]

\* calculate_returns, lines 178-187.  Reading an attribute that was never
\* assigned raises AttributeError.
calculate_returns_op(self) ==
    IF self.sale_info = Unset THEN [self |-> self, out |-> [kind |-> "AttributeError"]]
    ELSE IF self.sale_info = None THEN [self |-> self, out |-> [kind |-> "ValueError"]]
    ELSE _calculate_returns(self, self.sale_info.price, self.sale_info.date,
                            self.sale_info.closing_costs_percent)

---------------------------------------------------------------------------
\* import_from_csv.

\* float(text) and int(text) of a cell, lines 96, 104, 127 and 128; a text
\* that is no number ("TBD") raises ValueError.
float(text) ==
    CASE text = "0"     -> [kind |-> "ok", value |-> 0]
      [] text = "1"     -> [kind |-> "ok", value |-> 1]
      [] text = "6"     -> [kind |-> "ok", value |-> 6]
      [] text = "100"   -> [kind |-> "ok", value |-> 100]
      [] text = "300"   -> [kind |-> "ok", value |-> 300]
      [] text = "800"   -> [kind |-> "ok", value |-> 800]
      [] text = "1000"  -> [kind |-> "ok", value |-> 1000]
      [] text = "1200"  -> [kind |-> "ok", value |-> 1200]
      [] text = "4095"  -> [kind |-> "ok", value |-> 4095]
      [] text = "10000" -> [kind |-> "ok", value |-> 10000]
      [] OTHER          -> [kind |-> "ValueError"]

\* dict(item.split("=") for item in description.split(";")), line 124, and
\* the two lookups of lines 127-128.
MortgageParams(description) ==
    CASE description = "term_years=1;annual_rate=1200"
            -> [kind |-> "ok", annual_rate |-> "1200", term_years |-> "1"]
      [] description = "term_years=1;annual_rate=0"
            -> [kind |-> "ok", annual_rate |-> "0", term_years |-> "1"]
      [] description = "annual_rate=1200"
            -> [kind |-> "KeyError"]
      [] OTHER
            -> [kind |-> "ValueError"]

\* The calculator as one value.
Calculator(ic, rc, im, m, si) ==
    [initial_costs |-> ic, recurring_costs |-> rc, improvements |-> im,
     mortgage |-> m, sale_info |-> si]

add_initial_cost_op(self, description, amount, date) ==
    [self EXCEPT !.initial_costs = Append(@,
        [description |-> description, amount |-> amount, date |-> to_datetime(date)])]

add_improvement_op(self, description, amount, date) ==
    [self EXCEPT !.improvements = Append(@,
        [description |-> description, amount |-> amount, date |-> to_datetime(date)])]

add_recurring_cost_op(self, description, amount, start_date, frequency) ==
    [self EXCEPT !.recurring_costs = Append(@,
        [description |-> description, amount |-> amount,
         start_date |-> to_datetime(start_date), frequency |-> frequency])]

\* Lines 121-133: a mortgage row.
MortgageRow(self, description, amount, date) ==
    LET params == MortgageParams(description)
    IN  IF params.kind # "ok" THEN [self |-> self, kind |-> params.kind]
        ELSE LET rate == float(params.annual_rate)
                 term == float(params.term_years)
             IN  IF rate.kind # "ok" THEN [self |-> self, kind |-> rate.kind]
                 ELSE IF term.kind # "ok" THEN [self |-> self, kind |-> term.kind]
                 ELSE LET added == add_mortgage_op(amount, rate.value, term.value, date)
                      IN  [self |-> [self EXCEPT !.mortgage = added.mortgage],
                           kind |-> added.kind]

\* Lines 94-136: one row of the file.  warned says that a warning was printed.
ImportRow(self, row, columns) ==
    LET category == LowerStrip(row.category)
        amount   == float(row.amount)
    IN  IF amount.kind # "ok" THEN [self |-> self, kind |-> amount.kind, warned |-> FALSE]
        ELSE IF category = "sale"
        THEN LET percent == float(row.description)
             IN  IF percent.kind # "ok"
                 THEN [self |-> self, kind |-> percent.kind, warned |-> FALSE]
                 ELSE [self |-> [self EXCEPT !.sale_info =
                                    [price |-> amount.value,
                                     date  |-> to_datetime(row.date),
                                     closing_costs_percent |-> percent.value]],
                       kind |-> "ok", warned |-> FALSE]
        ELSE IF category = "initial"
        THEN [self |-> add_initial_cost_op(self, row.description, amount.value, row.date),
              kind |-> "ok", warned |-> FALSE]
        ELSE IF category = "recurring"
        THEN LET frequency == LowerStrip(IF "frequency" \in columns
                                         THEN row.frequency ELSE "monthly")
                 valid     == frequency \in {"monthly", "annual"}
             IN  [self |-> add_recurring_cost_op(self, row.description, amount.value,
                               row.date, IF valid THEN frequency ELSE "monthly"),
                  kind |-> "ok", warned |-> ~valid]
        ELSE IF category = "improvement"
        THEN [self |-> add_improvement_op(self, row.description, amount.value, row.date),
              kind |-> "ok", warned |-> FALSE]
        ELSE IF category = "mortgage"
        THEN LET done == MortgageRow(self, row.description, amount.value, row.date)
             IN  [self |-> done.self, kind |-> done.kind, warned |-> FALSE]
        ELSE [self |-> self, kind |-> "ok", warned |-> TRUE]

RECURSIVE ImportRows(_, _, _, _, _)
\* Lines 93-138: the rows from index i on; the first row that raises ends the
\* import, with what the rows before it did left in place.
ImportRows(self, rows, columns, i, warnings) ==
    IF i > Len(rows) THEN [self |-> self, kind |-> "ok", rows_done |-> Len(rows), warnings |-> warnings]
    ELSE LET one == ImportRow(self, rows[i], columns)
         IN  IF one.kind # "ok"
             THEN [self |-> one.self, kind |-> one.kind, rows_done |-> i - 1, warnings |-> warnings]
             ELSE ImportRows(one.self, rows, columns, i + 1,
                             IF one.warned THEN warnings + 1 ELSE warnings)

\* A path that names no file.
NoFile == [missing |-> TRUE]

\* import_from_csv, lines 76-142.
import_from_csv_op(self, file) ==
    IF file = NoFile
    THEN [self |-> self, kind |-> "FileNotFoundError", rows_done |-> 0, warnings |-> 0]
    ELSE IF ~({"category", "description", "amount", "date"} \subseteq file.columns)
    THEN [self |-> [self EXCEPT !.sale_info = None], kind |-> "ValueError",
          rows_done |-> 0, warnings |-> 0]
    ELSE ImportRows([self EXCEPT !.sale_info = None], file.rows, file.columns, 1, 0)

---------------------------------------------------------------------------
\* The inputs offered to the calls.

\* At most this many initial costs, improvements and recurring costs together.
MaxCosts == 2

\* At most this many rows in a CSV file.
MaxRows == 2

InitialDescriptions == {"Down Payment", "Closing costs"}
InitialAmounts      == {500}
CostDates           == {<<2020, 1, 31>>, <<2021, 6, 1>>}
RecurringDates      == {<<2020, 1, 31>>, <<2021, 3, 1>>}
Frequencies         == {"monthly", "annual", "weekly"}
Principals          == {4095}
AnnualRates         == {1200, 0, -1200}
TermYears           == {1, 0, -1}

CsvRow(category, description, amount, date, frequency) ==
    [category |-> category, description |-> description, amount |-> amount,
     date |-> date, frequency |-> frequency]

CsvRows ==
    { CsvRow("Initial", "DOWN PAYMENT (wire)", "800", <<2020, 1, 31>>, ""),
      CsvRow(" Sale ", "6", "10000", <<2021, 3, 1>>, ""),
      CsvRow("sale", "6", "1000", <<2020, 3, 30>>, ""),
      CsvRow("recurring", "Property tax", "100", <<2020, 1, 31>>, "weekly"),
      CsvRow("improvement", "Roof", "300", <<2021, 6, 1>>, ""),
      CsvRow("mortgage", "term_years=1;annual_rate=1200", "4095", <<2020, 1, 31>>, ""),
      CsvRow("mortgage", "term_years=1;annual_rate=0", "4095", <<2020, 1, 31>>, ""),
      CsvRow("mortgage", "term_years:1", "4095", <<2020, 1, 31>>, ""),
      CsvRow("note", "memo", "0", <<2020, 1, 31>>, ""),
      CsvRow("note", "memo", "TBD", <<2020, 1, 31>>, "") }

AllColumns == {"category", "description", "amount", "date", "frequency"}

RECURSIVE RowSeqs(_)
RowSeqs(n) ==
    IF n = 0 THEN {<<>>}
    ELSE RowSeqs(n - 1) \cup
         {Append(rows, row) : rows \in {q \in RowSeqs(n - 1) : Len(q) = n - 1}, row \in CsvRows}

CsvFiles ==
    {NoFile, [columns |-> AllColumns \ {"amount"}, rows |-> <<>>]}
    \cup {[columns |-> AllColumns, rows |-> rows] : rows \in RowSeqs(MaxRows)}

---------------------------------------------------------------------------
\* The state machine.

Self == Calculator(initial_costs, recurring_costs, improvements, mortgage, sale_info)

CostCount(self) ==
    Len(self.initial_costs) + Len(self.recurring_costs) + Len(self.improvements)

\* The calculator becomes self; the call's outcome becomes res.
Becomes(self, res) ==
    /\ initial_costs'   = self.initial_costs
    /\ recurring_costs' = self.recurring_costs
    /\ improvements'    = self.improvements
    /\ mortgage'        = self.mortgage
    /\ sale_info'       = self.sale_info
    /\ result'          = res

\* A call that does not return is the calculator's last: the caller is
\* single-threaded.  A call that raises can be caught, and the calculator
\* used again.
Running == result.kind # "diverges"

\* __init__, lines 7-11: sale_info is not among the attributes it creates.
Init ==
    /\ initial_costs = <<>>
    /\ recurring_costs = <<>>
    /\ improvements = <<>>
    /\ mortgage = None
    /\ sale_info = Unset
    /\ result = [op |-> "__init__", kind |-> "ok"]

add_initial_cost ==
    /\ Running
    /\ CostCount(Self) < MaxCosts
    /\ \E description \in InitialDescriptions, amount \in InitialAmounts, date \in CostDates :
          Becomes(add_initial_cost_op(Self, description, amount, date),
                  [op |-> "add_initial_cost", kind |-> "ok"])

add_improvement ==
    /\ Running
    /\ CostCount(Self) < MaxCosts
    /\ \E date \in CostDates :
          Becomes(add_improvement_op(Self, "Roof", 300, date),
                  [op |-> "add_improvement", kind |-> "ok"])

add_recurring_cost ==
    /\ Running
    /\ CostCount(Self) < MaxCosts
    /\ \E start_date \in RecurringDates, frequency \in Frequencies :
          Becomes(add_recurring_cost_op(Self, "Property tax", 100, start_date, frequency),
                  [op |-> "add_recurring_cost", kind |-> "ok"])

add_mortgage ==
    /\ Running
    /\ \E principal \in Principals, annual_rate \in AnnualRates,
          term_years \in TermYears, start_date \in CostDates :
          LET added == add_mortgage_op(principal, annual_rate, term_years, start_date)
          IN  Becomes([Self EXCEPT !.mortgage = added.mortgage],
                      [op |-> "add_mortgage", kind |-> added.kind,
                       annual_rate |-> annual_rate, term_years |-> term_years])

\* The model imports into a calculator that holds no cost and no mortgage
\* yet, as index.py does.
import_from_csv ==
    /\ Running
    /\ CostCount(Self) = 0
    /\ mortgage = None
    /\ \E file \in CsvFiles :
          LET done == import_from_csv_op(Self, file)
          IN  /\ CostCount(done.self) <= MaxCosts
              /\ Becomes(done.self,
                         [op |-> "import_from_csv", kind |-> done.kind, file |-> file,
                          rows_done |-> done.rows_done, warnings |-> done.warnings])

calculate_returns ==
    /\ Running
    /\ LET done == calculate_returns_op(Self)
       IN  Becomes(done.self, [op |-> "calculate_returns"] @@ done.out)

Next ==
    \/ add_initial_cost
    \/ add_improvement
    \/ add_recurring_cost
    \/ add_mortgage
    \/ import_from_csv
    \/ calculate_returns

Spec == Init /\ [][Next]_vars

---------------------------------------------------------------------------
\* Properties.

Returned == result.op = "calculate_returns" /\ result.kind = "ok"

RowsOfType(type) == SelectSeq(result.ledger, LAMBDA row : row.type = type)

RECURSIVE StepDate(_, _)
\* The date reached from start by j steps of one calendar month each.
StepDate(start, j) == IF j = 0 THEN start ELSE AddMonths(StepDate(start, j - 1), 1)

\* More months than lie between the start and the end of the sale's year.
Horizon(start, sale_date) ==
    IF sale_date.year < start.year THEN 0 ELSE 12 * (sale_date.year - start.year + 1)

\* C1: calculate_returns on a calculator without sale information raises the
\* missing-sale-information ValueError.
C1_MissingSaleRaisesValueError ==
    (result.op = "calculate_returns" /\ sale_info \in {Unset, None})
        => result.kind = "ValueError"

\* C2: the mortgage events of a returned ledger are those of the payments
\* 0..k-1, k the smaller of total_payments and the number of monthly steps
\* from start_date dated on or before the sale date: for payment j one Equity
\* Building and one Interest Cost event, both dated at the j-th monthly step,
\* with the split of payment j as amounts, none dated after the sale.
C2_MortgageExpansion ==
    (Returned /\ mortgage # None) =>
        LET equity   == RowsOfType("Equity Building")
            interest == RowsOfType("Interest Cost")
            steps == Cardinality({j \in 0..Horizon(mortgage.start_date, sale_info.date) :
                         DateLE(StepDate(mortgage.start_date, j), sale_info.date)})
            k == Min(mortgage.total_payments, steps)
        IN  /\ Len(equity) = Cardinality(0..(k - 1))
            /\ Len(interest) = Len(equity)
            /\ \A j \in 1..Len(equity) :
                  LET split == calculate_mortgage_payment_split(mortgage, j - 1)
                  IN  /\ equity[j].date = StepDate(mortgage.start_date, j - 1)
                      /\ interest[j].date = equity[j].date
                      /\ DateLE(equity[j].date, sale_info.date)
                      /\ equity[j].amount = 0 - split.principal_payment
                      /\ interest[j].amount = 0 - split.interest_payment

\* C2 witness: a returned ledger in which the term ends the payments: twelve
\* payments, although more than twelve monthly steps precede the sale.
C2_Witness ==
    /\ Returned
    /\ mortgage # None
    /\ Len(RowsOfType("Equity Building")) = 12
    /\ DateLE(StepDate(mortgage.start_date, 12), sale_info.date)

\* start_date + k months, or + k years, in one offset.
RecurringDateAt(cost, k) ==
    IF cost.frequency = "monthly" THEN AddMonths(cost.start_date, k)
    ELSE AddYears(cost.start_date, k)

\* The dates start_date + k periods, k >= 0, that are on or before the sale.
ExpectedRecurringDates(cost, sale_date) ==
    IF cost.frequency \notin {"monthly", "annual"} THEN {}
    ELSE {d \in {RecurringDateAt(cost, k) : k \in 0..Horizon(cost.start_date, sale_date)} :
            DateLE(d, sale_date)}

\* C3: in a returned ledger the Recurring Cost events are, for every monthly
\* (annual) recurring cost, one event of amount -amount at each date
\* start_date + k months (years), k >= 0, on or before the sale date, and no
\* other.
C3_RecurringAtStartPlusK ==
    Returned =>
        LET rows == RowsOfType("Recurring Cost")
            dates == {rows[i].date : i \in 1..Len(rows)}
                     \cup UNION {ExpectedRecurringDates(recurring_costs[i], sale_info.date) :
                                   i \in 1..Len(recurring_costs)}
        IN  \A d \in dates, amount \in {100} :
              Cardinality({i \in 1..Len(rows) :
                             rows[i].date = d /\ rows[i].amount = 0 - amount})
              = Cardinality({i \in 1..Len(recurring_costs) :
                               /\ recurring_costs[i].amount = amount
                               /\ d \in ExpectedRecurringDates(recurring_costs[i], sale_info.date)})

\* C4: a returned ledger, the Sale row included, is sorted ascending by date.
C4_LedgerSortedByDate ==
    Returned =>
        \A i \in 1..(Len(result.ledger) - 1) :
            DateLE(result.ledger[i].date, result.ledger[i + 1].date)

\* C5: whatever frequencies the recurring costs were entered with,
\* calculate_returns terminates.
C5_CalculateReturnsTerminates ==
    result.op = "calculate_returns" => result.kind # "diverges"

\* C6: add_mortgage with a zero or negative rate or term raises, and leaves no
\* mortgage record without monthly_payment behind.
C6_DegenerateMortgageRejected ==
    (result.op = "add_mortgage" /\ (result.annual_rate <= 0 \/ result.term_years <= 0))
        => /\ result.kind # "ok"
           /\ (mortgage = None \/ "monthly_payment" \in DOMAIN mortgage)

\* C7: with positive cost amounts and a proper mortgage (or none), Total
\* Invested is the sum of the cost events' amounts and Total Withdrawn is the
\* net sale proceeds.
C7_InvestedAndWithdrawnRoundTrip ==
    (Returned /\ (mortgage = None \/ (mortgage.annual_rate > 0 /\ mortgage.term_years > 0)))
        => /\ result.summary["Total Invested"]
                = 0 - Sum(Amounts(SelectSeq(result.ledger, LAMBDA row : row.type # "Sale")))
           /\ result.summary["Total Withdrawn"] = result.summary["Sale Proceeds"]

\* C8: Down Payment and Purchase Date are the amount and the date of the
\* Initial Cost event whose description contains 'down payment'; without such
\* an event they are 0 and None.
C8_PurchaseInformation ==
    Returned =>
        LET matches == SelectSeq(RowsOfType("Initial Cost"),
                                 LAMBDA row : ContainsDownPayment(row.description))
        IN  IF matches # <<>>
            THEN /\ result.summary["Down Payment"] = 0 - matches[1].amount
                 /\ result.summary["Purchase Date"] = matches[1].date
            ELSE /\ result.summary["Down Payment"] = 0
                 /\ result.summary["Purchase Date"] = None

KnownCategories == {"initial", "recurring", "improvement", "mortgage", "sale"}

\* C9: an import never ends at a row of unknown category: when it raises at a
\* row, that row's category is one of the five known ones.
C9_UnknownCategoryNeverFatal ==
    (/\ result.op = "import_from_csv"
     /\ result.kind # "ok"
     /\ result.file # NoFile
     /\ result.rows_done < Len(result.file.rows))
        => LowerStrip(result.file.rows[result.rows_done + 1].category) \in KnownCategories

C11_PrincipalNotPaidTwice ==
    (/\ Returned
     /\ mortgage # None
     /\ mortgage.annual_rate > 0
     /\ mortgage.term_years > 0
     /\ DateLE(mortgage.start_date, sale_info.date))
        => /\ result.summary["Accumulated Equity"] + result.summary["Remaining Mortgage"]
                <= mortgage.principal
           /\ result.summary["Remaining Mortgage"] >= 0
           /\ result.summary["Remaining Mortgage"] <= mortgage.principal

====
